---- MODULE Spec2Model ----
(***************************************************************************)
(* State-machine model of the CORD-19 search front end.                    *)
(*                                                                         *)
(*   SearchBar component  (src/unnamed/part_000)      -> SpecBar           *)
(*   App component        (src/frontend/src/App.tsx)  -> SpecApp           *)
(*   DocumentViewer's pure functions                                       *)
(*     (src/frontend/src/components/DocumentViewer.tsx)                    *)
(*     formatTextWithSections -> SpecDecoder                               *)
(*     formatAbstract         -> SpecAbstract                              *)
(*     formatAuthors          -> SpecAuthors                               *)
(* Document texts are sequences of tokens: a section delimiter, a blank, a *)
(* line break, a comma or a word is one token each.                        *)
(*                                                                         *)
(* Each React event handler, effect run, timer callback and promise        *)
(* continuation is one atomic action (the UI thread runs them to           *)
(* completion; the only suspension points are the awaited network calls).  *)
(* JavaScript strings are modelled as sequences of one-character strings.  *)
(*                                                                         *)
(* SearchBar talks to App only through its props: onSearch is invoked with *)
(* a string and touches App state only; SpecBar records the invocation in  *)
(* lastEvent, and SpecApp drives handleSearch with every string the bar    *)
(* can pass.                                                               *)
(***************************************************************************)
EXTENDS Integers, Sequences, FiniteSets, TLC

\* ------------------------------------------------------------- bounds
MaxWord == 3
MaxAutoInFlight == 2
MaxInFlight == 2
TickMs == 100
MaxBody == 5
MaxAbstract == 4
MaxAuthors == 5
DocIds == {"d1", "d2"}

\* ------------------------------------------------------------- program constants
DEBOUNCE_MS == 300
MIN_PREFIX_LEN == 2
AUTOCOMPLETE_LIMIT == 8
SEARCH_LIMIT == 20
HTTP_NOT_READY == 503
HTTP_NOT_FOUND == 404

\* ------------------------------------------------------------- strings
\* what can be typed or submitted: a word of up to MaxWord letters, with or
\* without a blank before it and after it
Word(n) == [k \in 1..n |-> "a"]
Blanks == {<<>>, <<" ">>}
InputValues == {l \o Word(n) \o r : l \in Blanks, r \in Blanks, n \in 0..MaxWord}

Min(a, b) == IF a < b THEN a ELSE b
Max(a, b) == IF a > b THEN a ELSE b

NL == "\n"

IsSpace(c) == c \in {" ", NL}

RECURSIVE TrimStart(_)
TrimStart(s) ==
    IF s # <<>> /\ IsSpace(Head(s)) THEN TrimStart(Tail(s)) ELSE s

RECURSIVE TrimEnd(_)
TrimEnd(s) ==
    IF s # <<>> /\ IsSpace(s[Len(s)]) THEN TrimEnd(SubSeq(s, 1, Len(s) - 1)) ELSE s

\* String.prototype.trim
Trim(s) == TrimEnd(TrimStart(s))

RemoveAt(seq, i) == SubSeq(seq, 1, i - 1) \o SubSeq(seq, i + 1, Len(seq))

\* position of the first tok in text, Len(text) + 1 if there is none
FirstIndex(text, tok) ==
    LET at == {i \in 1..Len(text) : text[i] = tok} \cup {Len(text) + 1}
    IN  CHOOSE m \in at : \A n \in at : m <= n

\* text from position i to its end
From(text, i) == SubSeq(text, i, Len(text))

\* ------------------------------------------------------------- state
VARIABLES
    \* SearchBar (src/unnamed/part_000)
    barQuery,              \* useState(initialQuery): the input's value
    suggestions,           \* useState<string[]>([])
    showSuggestions,       \* useState(false)
    isLoadingSuggestions,  \* useState(false)
    debounceTimerRef,      \* useRef<number | null>: 0 is null, else a timer id
    timers,                \* the browser's pending timeouts: [id, prefix, due]
    autoInFlight,          \* awaited onAutocomplete calls: [prefix, limit]
    \* App (src/frontend/src/App.tsx)
    query,                 \* useState(''): the active query
    results,               \* useState<SearchResult[]>([])
    loading,               \* useState(false)
    selectedDoc,           \* useState<Document | null>(null): <<>> is null
    showDocument,          \* useState(false)
    totalResults,          \* useState(0)
    searchInFlight,        \* awaited searchAPI calls: [q, limit, superseded]
    docInFlight,           \* awaited getDocumentAPI calls: [docId, superseded]
    \* observation
    quiet,                 \* ms since the input value last changed (capped)
    burstCalls,            \* autocomplete calls issued since the burst began
    burstChanges,          \* input changes in the burst so far (capped)
    dismissed,             \* a submit or a picked suggestion hid the panel and
                           \* the user has not changed the input since
    lastEvent,             \* the step just taken, see AppEvent
    \* DocumentViewer's pure functions
    fnArg,                 \* the argument: <<>> is undefined, else <<text>>
    fnOut,                 \* <<>> before the call, else <<the value returned>>
    fnCalls                \* calls made so far

barVars == <<barQuery, suggestions, showSuggestions, isLoadingSuggestions,
             debounceTimerRef, timers, autoInFlight, quiet, burstCalls,
             burstChanges, dismissed>>

appVars == <<query, results, loading, selectedDoc, showDocument, totalResults,
             searchInFlight, docInFlight>>

fnVars == <<fnArg, fnOut, fnCalls>>

vars == <<barVars, appVars, lastEvent, fnVars>>

\* op: the handler or continuation that ran; q: its string argument (the
\* request's query or prefix for a continuation); alerts: the messages it
\* showed with alert(); superseded: for a search response, whether a later
\* search had been issued when it arrived; error: <<>> or <<the rejection>>;
\* docId: <<>> or <<the identifier the document request was made for>>;
\* response: <<>> or <<the search response that resolved>>
AppEvent(op, q, alerts, superseded, error, docId, response) ==
    [op |-> op, q |-> q, alerts |-> alerts, superseded |-> superseded,
     error |-> error, docId |-> docId, response |-> response]

Event(op, q) == AppEvent(op, q, <<>>, FALSE, <<>>, <<>>, <<>>)

\* ------------------------------------------------------------- SearchBar
\* window.clearTimeout(id)
ClearTimeout_NoOp(ts, id) == ts

ClearTimeout(ts, id) == {t \in ts : t.id # id}

\* a handle window.setTimeout has not handed out among the live ones
FreshTimerId(ts, ref) ==
    CHOOSE n \in 1..(Cardinality(ts) + 2) : n # ref /\ \A t \in ts : t.id # n

\* query.trim().length < 2
TooShort_NoTrim(q) == Len(q) < MIN_PREFIX_LEN

TooShort(q) == Len(Trim(q)) < MIN_PREFIX_LEN

\* The debounce effect (cleanup of the previous run, then the body) for the
\* new input value q; show is showSuggestions as the handler left it.
DebounceEffect(q, show) ==
    LET cleared == IF debounceTimerRef # 0
                   THEN ClearTimeout(timers, debounceTimerRef)
                   ELSE timers
        id == FreshTimerId(cleared, debounceTimerRef)
    IN  IF TooShort(q)
        THEN /\ suggestions' = <<>>
             /\ showSuggestions' = FALSE
             /\ timers' = cleared
             /\ UNCHANGED <<debounceTimerRef, isLoadingSuggestions>>
        ELSE /\ isLoadingSuggestions' = TRUE
             /\ timers' = cleared \cup
                    {[id |-> id, prefix |-> Trim(q),
                      limit |-> AUTOCOMPLETE_LIMIT, due |-> DEBOUNCE_MS]}
             /\ debounceTimerRef' = id
             /\ suggestions' = suggestions
             /\ showSuggestions' = show

\* a change of the input value starts a new burst unless it arrives within
\* the debounce window of the previous one
QueryChanged ==
    /\ quiet' = 0
    /\ burstCalls' = IF quiet < DEBOUNCE_MS THEN burstCalls ELSE 0
    /\ burstChanges' = IF quiet < DEBOUNCE_MS THEN Min(burstChanges + 1, 2) ELSE 1

\* handleInputChange: setQuery(e.target.value), then the effect on [query]
handleInputChange(v) ==
    /\ v # barQuery
    /\ barQuery' = v
    /\ DebounceEffect(v, showSuggestions)
    /\ QueryChanged
    /\ dismissed' = FALSE
    /\ lastEvent' = Event("handleInputChange", v)
    /\ UNCHANGED autoInFlight
    /\ UNCHANGED <<appVars, fnVars>>

\* the setTimeout callback up to its await: onAutocomplete(query.trim(), 8)
TimerFire(t) ==
    /\ t \in timers
    /\ t.due = 0
    /\ Len(autoInFlight) < MaxAutoInFlight
    /\ timers' = timers \ {t}
    /\ autoInFlight' = Append(autoInFlight, [prefix |-> t.prefix, limit |-> t.limit])
    /\ burstCalls' = Min(burstCalls + 1, 2)
    /\ lastEvent' = Event("TimerFire", t.prefix)
    /\ UNCHANGED <<barQuery, suggestions, showSuggestions, isLoadingSuggestions,
                   debounceTimerRef, quiet, burstChanges>>
    /\ UNCHANGED <<appVars, fnVars, dismissed>>

\* what the backend may answer for a prefix
Completions(p) ==
    {<<>>, <<p>>} \cup (IF Len(p) < MaxWord THEN {<<p, p \o <<"a">>>>} ELSE {})

\* the callback after the await resolved: try branch, then finally
AutocompleteOk(i, res) ==
    /\ i \in 1..Len(autoInFlight)
    /\ res \in Completions(autoInFlight[i].prefix)
    /\ suggestions' = res
    /\ showSuggestions' = TRUE
    /\ isLoadingSuggestions' = FALSE
    /\ autoInFlight' = RemoveAt(autoInFlight, i)
    /\ lastEvent' = Event("AutocompleteOk", autoInFlight[i].prefix)
    /\ UNCHANGED <<barQuery, debounceTimerRef, timers, quiet, burstCalls,
                   burstChanges>>
    /\ UNCHANGED <<appVars, fnVars, dismissed>>

\* the suggestion list is rendered: showSuggestions && suggestions.length > 0
SuggestionPanelShown == showSuggestions /\ Len(suggestions) > 0

AutocompleteFail_KeepList(i) ==
    /\ i \in 1..Len(autoInFlight)
    /\ isLoadingSuggestions' = FALSE
    /\ autoInFlight' = RemoveAt(autoInFlight, i)
    /\ lastEvent' = Event("AutocompleteFail", autoInFlight[i].prefix)
    /\ UNCHANGED <<barQuery, suggestions, showSuggestions, debounceTimerRef,
                   timers, quiet, burstCalls, burstChanges>>
    /\ UNCHANGED <<appVars, fnVars, dismissed>>

\* the callback after the await rejected: catch branch, then finally
AutocompleteFail(i) ==
    /\ i \in 1..Len(autoInFlight)
    /\ suggestions' = <<>>
    /\ isLoadingSuggestions' = FALSE
    /\ autoInFlight' = RemoveAt(autoInFlight, i)
    /\ lastEvent' = Event("AutocompleteFail", autoInFlight[i].prefix)
    /\ UNCHANGED <<barQuery, showSuggestions, debounceTimerRef, timers, quiet,
                   burstCalls, burstChanges>>
    /\ UNCHANGED <<appVars, fnVars, dismissed>>

\* handleSubmit: setShowSuggestions(false); onSearch(query.trim())
handleSubmit ==
    /\ showSuggestions' = FALSE
    /\ dismissed' = TRUE
    /\ lastEvent' = Event("handleSubmit", Trim(barQuery))
    /\ UNCHANGED <<barQuery, suggestions, isLoadingSuggestions, debounceTimerRef,
                   timers, autoInFlight, quiet, burstCalls, burstChanges>>
    /\ UNCHANGED <<appVars, fnVars>>

\* handleSuggestionClick on a rendered suggestion button:
\* setQuery(suggestion); setShowSuggestions(false); onSearch(suggestion);
\* the effect runs when the value changed
handleSuggestionClick(k) ==
    /\ showSuggestions
    /\ k \in 1..Len(suggestions)
    /\ barQuery' = suggestions[k]
    /\ IF suggestions[k] # barQuery
       THEN DebounceEffect(suggestions[k], FALSE) /\ QueryChanged
       ELSE /\ showSuggestions' = FALSE
            /\ UNCHANGED <<suggestions, isLoadingSuggestions, debounceTimerRef,
                           timers, quiet, burstCalls, burstChanges>>
    /\ dismissed' = TRUE
    /\ lastEvent' = Event("handleSuggestionClick", suggestions[k])
    /\ UNCHANGED autoInFlight
    /\ UNCHANGED <<appVars, fnVars>>

\* handleClickOutside: mousedown outside the search bar
handleClickOutside ==
    /\ showSuggestions' = FALSE
    /\ lastEvent' = Event("handleClickOutside", <<>>)
    /\ UNCHANGED <<barQuery, suggestions, isLoadingSuggestions, debounceTimerRef,
                   timers, autoInFlight, quiet, burstCalls, burstChanges>>
    /\ UNCHANGED <<appVars, fnVars, dismissed>>

\* time passes; a due timeout may still be waiting for the event loop
Tick ==
    /\ quiet < DEBOUNCE_MS \/ \E t \in timers : t.due > 0
    /\ quiet' = Min(quiet + TickMs, DEBOUNCE_MS)
    /\ timers' = {[t EXCEPT !.due = Max(0, t.due - TickMs)] : t \in timers}
    /\ lastEvent' = Event("Tick", <<>>)
    /\ UNCHANGED <<barQuery, suggestions, showSuggestions, isLoadingSuggestions,
                   debounceTimerRef, autoInFlight, burstCalls, burstChanges>>
    /\ UNCHANGED <<appVars, fnVars, dismissed>>

\* ------------------------------------------------------------- App
Null == <<>>
Some(x) == <<x>>

\* JavaScript's a || b on an optional array, number and string
OrArray_Sorted(o) ==
    IF o = Null THEN <<>>
    ELSE IF o[1] = <<"d2", "d1">> THEN <<"d1", "d2">> ELSE o[1]

OrArray(o) == IF o # Null THEN o[1] ELSE <<>>
OrNumber(o) == IF o # Null /\ o[1] # 0 THEN o[1] ELSE 0
OrString(o, d) == IF o # Null /\ o[1] # <<>> THEN o[1] ELSE d

\* what the backend may send
ResultLists == {<<>>, <<"d1", "d2">>, <<"d2", "d1">>}
Totals == {0, 57}
NormalisedQuery == <<"a", "a">>
SearchResponses(q) ==
    [results : {Null} \cup {Some(r) : r \in ResultLists},
     total : {Null} \cup {Some(t) : t \in Totals},
     query : {Null, Some(q), Some(NormalisedQuery)}]
\* an axios rejection: status 0 stands for no response at all
SearchErrors ==
    {[status |-> 503, message |-> "Request failed with status code 503"],
     [status |-> 404, message |-> "Request failed with status code 404"],
     [status |-> 500, message |-> "Request failed with status code 500"],
     [status |-> 0, message |-> "Network Error"],
     [status |-> 0, message |-> ""]}
FetchedDocument(docId) == [paper_id |-> docId]

\* the three alert texts of handleSearch and the one of handleSelectDocument
NotReadyMessage ==
    <<"Search engine is not ready. Please check if the backend server is running and initialized.">>
NotFoundMessage ==
    <<"Backend API not found. Please ensure the backend server is running on port 8000.">>
SearchFailedMessage(m) ==
    <<"Search failed: ", IF m # "" THEN m ELSE "Unknown error">>
DocumentErrorMessage == <<"Error loading document. Please try again.">>

\* the rejections of getDocumentAPI: the server's 404, a transport failure
DocumentErrors ==
    {[status |-> HTTP_NOT_FOUND, message |-> "Request failed with status code 404"],
     [status |-> 0, message |-> "Network Error"]}

\* the catch of handleSelectDocument alerts one text whatever the error is
DocumentFailureMessage(error) == DocumentErrorMessage

SearchErrorMessage_No404(error) ==
    IF error.status = HTTP_NOT_READY THEN NotReadyMessage
    ELSE SearchFailedMessage(error.message)

SearchErrorMessage(error) ==
    IF error.status = HTTP_NOT_READY THEN NotReadyMessage
    ELSE IF error.status = HTTP_NOT_FOUND THEN NotFoundMessage
    ELSE SearchFailedMessage(error.message)

\* !searchQuery.trim()
IsEmptyQuery_NoTrim(searchQuery) == searchQuery = <<>>

IsEmptyQuery(searchQuery) == Trim(searchQuery) = <<>>

\* finally { setLoading(false) } of handleSearch
SearchFinally_Skipped == loading

SearchFinally == FALSE

\* finally { setLoading(false) } of handleSelectDocument
DocumentFinally == FALSE

\* bookkeeping, not program state: the requests in flight that a later user
\* intent has overtaken
Supersede(reqs) == [k \in 1..Len(reqs) |-> [reqs[k] EXCEPT !.superseded = TRUE]]

\* handleSearch(searchQuery) up to its return or its await
handleSearch(searchQuery) ==
    /\ IF IsEmptyQuery(searchQuery)
       THEN /\ results' = <<>>
            /\ totalResults' = 0
            /\ query' = <<>>
            /\ UNCHANGED <<loading, searchInFlight, docInFlight>>
       ELSE /\ Len(searchInFlight) + Len(docInFlight) < MaxInFlight
            /\ loading' = TRUE
            /\ query' = Trim(searchQuery)
            /\ searchInFlight' =
                   Append(Supersede(searchInFlight),
                          [q |-> Trim(searchQuery), limit |-> SEARCH_LIMIT,
                           superseded |-> FALSE])
            /\ docInFlight' = Supersede(docInFlight)
            /\ UNCHANGED <<results, totalResults>>
    /\ lastEvent' = Event("handleSearch", searchQuery)
    /\ UNCHANGED <<selectedDoc, showDocument>>
    /\ UNCHANGED <<barVars, fnVars>>

\* handleSearch after searchAPI resolved: the rest of try, then finally
SearchOk(i, response) ==
    /\ i \in 1..Len(searchInFlight)
    /\ response \in SearchResponses(searchInFlight[i].q)
    /\ results' = OrArray(response.results)
    /\ totalResults' = OrNumber(response.total)
    /\ query' = OrString(response.query, searchInFlight[i].q)
    /\ loading' = SearchFinally
    /\ searchInFlight' = RemoveAt(searchInFlight, i)
    /\ lastEvent' = AppEvent("SearchOk", searchInFlight[i].q, <<>>,
                             searchInFlight[i].superseded, <<>>, <<>>,
                             <<response>>)
    /\ UNCHANGED <<selectedDoc, showDocument, docInFlight>>
    /\ UNCHANGED <<barVars, fnVars>>

SearchFail_BackToResults(i, error) ==
    /\ i \in 1..Len(searchInFlight)
    /\ error \in SearchErrors
    /\ results' = <<>>
    /\ totalResults' = 0
    /\ loading' = SearchFinally
    /\ searchInFlight' = RemoveAt(searchInFlight, i)
    /\ showDocument' = FALSE
    /\ lastEvent' = AppEvent("SearchFail", <<>>,
                             <<SearchErrorMessage(error)>>,
                             searchInFlight[i].superseded, <<error>>, <<>>, <<>>)
    /\ UNCHANGED <<query, selectedDoc, docInFlight>>
    /\ UNCHANGED <<barVars, fnVars>>

\* handleSearch after searchAPI rejected: catch, then finally
SearchFail(i, error) ==
    /\ i \in 1..Len(searchInFlight)
    /\ error \in SearchErrors
    /\ results' = <<>>
    /\ totalResults' = 0
    /\ loading' = SearchFinally
    /\ searchInFlight' = RemoveAt(searchInFlight, i)
    /\ lastEvent' = AppEvent("SearchFail", <<>>,
                             <<SearchErrorMessage(error)>>,
                             searchInFlight[i].superseded, <<error>>, <<>>, <<>>)
    /\ UNCHANGED <<query, selectedDoc, showDocument, docInFlight>>
    /\ UNCHANGED <<barVars, fnVars>>

\* the render: showDocument && selectedDoc ? DocumentViewer : SearchResults
DocumentViewerShown == showDocument /\ selectedDoc # Null
SearchResultsShown == ~DocumentViewerShown
\* SearchResults renders the result cards past its loading and empty gates
ResultCardsShown ==
    SearchResultsShown /\ ~loading /\ query # <<>> /\ results # <<>>

\* handleSelectDocument(docId), from a click on a result card, up to its await
handleSelectDocument(k) ==
    /\ ResultCardsShown
    /\ k \in 1..Len(results)
    /\ Len(searchInFlight) + Len(docInFlight) < MaxInFlight
    /\ loading' = TRUE
    /\ docInFlight' = Append(Supersede(docInFlight),
                              [docId |-> results[k], superseded |-> FALSE])
    /\ lastEvent' = AppEvent("handleSelectDocument", <<>>, <<>>, FALSE, <<>>,
                             <<results[k]>>, <<>>)
    /\ UNCHANGED <<query, results, selectedDoc, showDocument, totalResults,
                   searchInFlight>>
    /\ UNCHANGED <<barVars, fnVars>>

\* handleSelectDocument after getDocumentAPI resolved
DocumentOk(i) ==
    /\ i \in 1..Len(docInFlight)
    /\ selectedDoc' = Some(FetchedDocument(docInFlight[i].docId))
    /\ showDocument' = TRUE
    /\ loading' = DocumentFinally
    /\ docInFlight' = RemoveAt(docInFlight, i)
    /\ lastEvent' = AppEvent("DocumentOk", <<>>, <<>>, docInFlight[i].superseded,
                             <<>>, <<docInFlight[i].docId>>, <<>>)
    /\ UNCHANGED <<query, results, totalResults, searchInFlight>>
    /\ UNCHANGED <<barVars, fnVars>>

\* handleSelectDocument after getDocumentAPI rejected
DocumentFail(i, error) ==
    /\ i \in 1..Len(docInFlight)
    /\ loading' = DocumentFinally
    /\ docInFlight' = RemoveAt(docInFlight, i)
    /\ lastEvent' = AppEvent("DocumentFail", <<>>,
                             <<DocumentFailureMessage(error)>>, FALSE,
                             <<error>>, <<docInFlight[i].docId>>, <<>>)
    /\ UNCHANGED <<query, results, selectedDoc, showDocument, totalResults,
                   searchInFlight>>
    /\ UNCHANGED <<barVars, fnVars>>

handleBackToResults_Reset ==
    /\ DocumentViewerShown
    /\ showDocument' = FALSE
    /\ selectedDoc' = Null
    /\ results' = <<>>
    /\ totalResults' = 0
    /\ docInFlight' = Supersede(docInFlight)
    /\ lastEvent' = Event("handleBackToResults", <<>>)
    /\ UNCHANGED <<query, loading, searchInFlight>>
    /\ UNCHANGED <<barVars, fnVars>>

handleBackToResults_KeepDoc ==
    /\ DocumentViewerShown
    /\ showDocument' = FALSE
    /\ docInFlight' = Supersede(docInFlight)
    /\ lastEvent' = Event("handleBackToResults", <<>>)
    /\ UNCHANGED <<query, results, loading, selectedDoc, totalResults,
                   searchInFlight>>
    /\ UNCHANGED <<barVars, fnVars>>

\* handleBackToResults, from DocumentViewer's back button
handleBackToResults ==
    /\ DocumentViewerShown
    /\ showDocument' = FALSE
    /\ selectedDoc' = Null
    /\ docInFlight' = Supersede(docInFlight)
    /\ lastEvent' = Event("handleBackToResults", <<>>)
    /\ UNCHANGED <<query, results, loading, totalResults, searchInFlight>>
    /\ UNCHANGED <<barVars, fnVars>>

InitApp ==
    /\ query = <<>>
    /\ results = <<>>
    /\ loading = FALSE
    /\ selectedDoc = Null
    /\ showDocument = FALSE
    /\ totalResults = 0
    /\ searchInFlight = <<>>
    /\ docInFlight = <<>>

\* after mount: the effect has run once with initialQuery = ''
InitBar ==
    /\ barQuery = <<>>
    /\ suggestions = <<>>
    /\ showSuggestions = FALSE
    /\ isLoadingSuggestions = FALSE
    /\ debounceTimerRef = 0
    /\ timers = {}
    /\ autoInFlight = <<>>
    /\ quiet = DEBOUNCE_MS
    /\ burstCalls = 0
    /\ burstChanges = 0
    /\ dismissed = FALSE

\* no DocumentViewer function is under study
InitFn ==
    /\ fnArg = <<>>
    /\ fnOut = <<>>
    /\ fnCalls = 0

Init ==
    /\ InitBar
    /\ InitApp
    /\ lastEvent = Event("mount", <<>>)
    /\ InitFn

NextBar ==
    \/ \E v \in InputValues : handleInputChange(v)
    \/ \E t \in timers : TimerFire(t)
    \/ \E i \in 1..Len(autoInFlight) :
           \E res \in Completions(autoInFlight[i].prefix) : AutocompleteOk(i, res)
    \/ \E i \in 1..Len(autoInFlight) : AutocompleteFail(i)
    \/ handleSubmit
    \/ \E k \in 1..Len(suggestions) : handleSuggestionClick(k)
    \/ handleClickOutside
    \/ Tick

SpecBar == Init /\ [][NextBar]_vars

NextApp ==
    \/ \E s \in InputValues : handleSearch(s)
    \/ \E i \in 1..Len(searchInFlight) :
           \E response \in SearchResponses(searchInFlight[i].q) : SearchOk(i, response)
    \/ \E i \in 1..Len(searchInFlight) : \E error \in SearchErrors : SearchFail(i, error)
    \/ \E k \in 1..Len(results) : handleSelectDocument(k)
    \/ \E i \in 1..Len(docInFlight) : DocumentOk(i)
    \/ \E i \in 1..Len(docInFlight) : \E error \in DocumentErrors :
           DocumentFail(i, error)
    \/ handleBackToResults

SpecApp == Init /\ [][NextApp]_vars

\* ------------------------------------------------------------- DocumentViewer
SECTION_START == "##SECTION_START##"
SECTION_END == "##SECTION_END##"

Heading(t) == [kind |-> "Heading", text |-> t]
Paragraph(t) == [kind |-> "Paragraph", text |-> t]

\* text.includes(tok)
Includes(text, tok) == \E i \in 1..Len(text) : text[i] = tok

\* /##SECTION_START##(.*?)##SECTION_END##/ tried at position i: the lazy
\* group runs to the first end delimiter, and '.' does not cross a line break.
\* 0 if there is no match at i, else the position of the end delimiter.
MatchEndAt(text, i) ==
    IF text[i] # SECTION_START THEN 0
    ELSE LET stops == {j \in (i + 1)..Len(text) : text[j] \in {SECTION_END, NL}}
         IN  IF stops = {} THEN 0
             ELSE LET j == CHOOSE m \in stops : \A n \in stops : m <= n
                  IN  IF text[j] = SECTION_END THEN j ELSE 0

\* sectionPattern.exec(text) with lastIndex at pos: the leftmost match
\* starting at pos or later, 0 if none
NextMatch(text, pos) ==
    LET starts == {i \in pos..Len(text) : MatchEndAt(text, i) # 0}
    IN  IF starts = {} THEN 0 ELSE CHOOSE m \in starts : \A n \in starts : m <= n

\* first pass: the while loop over sectionPattern.exec; startIndex is the
\* position of the start delimiter, endIndex the position after the end one
RECURSIVE FindSections(_, _)
FindSections(text, pos) ==
    LET i == NextMatch(text, pos)
    IN  IF i = 0 THEN <<>>
        ELSE LET j == MatchEndAt(text, i)
             IN  <<[name |-> Trim(SubSeq(text, i + 1, j - 1)),
                    startIndex |-> i, endIndex |-> j + 1]>>
                 \o FindSections(text, j + 1)

\* second pass, iterations i..sections.length: heading, then content
RECURSIVE SectionParts(_, _, _)
SectionParts(text, sections, i) ==
    IF i > Len(sections) THEN <<>>
    ELSE LET section == sections[i]
             contentEnd == IF i < Len(sections)
                           THEN sections[i + 1].startIndex - 1
                           ELSE Len(text)
             content == Trim(SubSeq(text, section.endIndex, contentEnd))
         IN  (IF section.name # <<>> THEN <<Heading(section.name)>> ELSE <<>>)
             \o (IF content # <<>> THEN <<Paragraph(content)>> ELSE <<>>)
             \o SectionParts(text, sections, i + 1)

\* the "plain-text" element: the text as it is
PlainText_Trimmed(text) == <<Paragraph(Trim(text))>>

PlainText(text) == <<Paragraph(text)>>

\* formatTextWithSections(text), text being <<>> (undefined) or <<string>>
formatTextWithSections(arg) ==
    IF arg = <<>> \/ arg[1] = <<>> THEN <<>>
    ELSE LET text == arg[1]
         IN  IF ~Includes(text, SECTION_START) THEN PlainText(text)
             ELSE LET sections == FindSections(text, 1)
                      body == SectionParts(text, sections, 1)
                      textBefore ==
                          IF sections # <<>> /\ sections[1].startIndex > 1
                          THEN Trim(SubSeq(text, 1, sections[1].startIndex - 1))
                          ELSE <<>>
                      parts == (IF textBefore # <<>>
                                THEN <<Paragraph(textBefore)>> ELSE <<>>) \o body
                  IN  IF Len(parts) > 0 THEN parts ELSE PlainText(text)

\* document bodies: every token sequence up to MaxBody, and the worked examples
BodyTokens == {SECTION_START, SECTION_END, "a", " ", NL}
ExampleBodies ==
    {<<SECTION_START, "Intro", SECTION_END, "hello",
       SECTION_START, "Methods", SECTION_END, "world">>,
     <<SECTION_START, " ", "Intro", " ", SECTION_END, " ", "hello", " ",
       SECTION_START, " ", "Methods", " ", SECTION_END, " ", "world">>,
     <<"preamble", " ", SECTION_START, " ", "A", " ", SECTION_END, " ", "body">>}
Bodies == UNION {[1..n -> BodyTokens] : n \in 0..MaxBody} \cup ExampleBodies

InitDecoder ==
    /\ InitBar
    /\ InitApp
    /\ lastEvent = Event("mount", <<>>)
    /\ fnArg \in {<<>>} \cup {<<b>> : b \in Bodies}
    /\ fnOut = <<>>
    /\ fnCalls = 0

\* DocumentViewer renders formatTextWithSections(text || formattedText)
Decode ==
    /\ fnCalls = 0
    /\ fnOut' = <<formatTextWithSections(fnArg)>>
    /\ fnCalls' = 1
    /\ UNCHANGED <<fnArg, barVars, appVars, lastEvent>>

NextDecoder == Decode

SpecDecoder == InitDecoder /\ [][NextDecoder]_vars

\* ------------------------------------------------------------ formatAbstract
\* the words of /\b(background|methods|results|conclusion|introduction)\b/gi;
\* the i flag admits other spellings, the capitalised one stands for them
Keywords == {"background", "methods", "results", "conclusion", "introduction"}
Capitalised ==
    [background |-> "Background", methods |-> "Methods", results |-> "Results",
     conclusion |-> "Conclusion", introduction |-> "Introduction"]
IsKeyword(tok) == \E k \in Keywords : tok \in {k, Capitalised[k]}

\* \b on both sides: a keyword token with no word token next to it
WholeWordAt(text, i) ==
    /\ IsKeyword(text[i])
    /\ i = 1 \/ IsSpace(text[i - 1])
    /\ i = Len(text) \/ IsSpace(text[i + 1])

\* .replace(/\b(...)\b/gi, '\n\n$1'), from position i on
RECURSIVE BreakBeforeKeywords(_, _)
BreakBeforeKeywords(text, i) ==
    IF i > Len(text) THEN <<>>
    ELSE (IF WholeWordAt(text, i) THEN <<NL, NL, text[i]>> ELSE <<text[i]>>)
         \o BreakBeforeKeywords(text, i + 1)

\* .replace(/\s+/g, ' ')
RECURSIVE CollapseWhitespace(_)
CollapseWhitespace(text) ==
    IF text = <<>> THEN <<>>
    ELSE IF IsSpace(text[1])
         THEN <<" ">> \o CollapseWhitespace(TrimStart(text))
         ELSE <<text[1]>> \o CollapseWhitespace(Tail(text))

\* formatAbstract(abstract), abstract being <<>> (undefined) or <<string>>
formatAbstract(arg) ==
    IF arg = <<>> \/ arg[1] = <<>> THEN <<>>
    ELSE Trim(CollapseWhitespace(BreakBeforeKeywords(arg[1], 1)))

AbstractTokens == {"Methods", "results", "a", " ", NL}
Abstracts == UNION {[1..n -> AbstractTokens] : n \in 0..MaxAbstract}

InitAbstract ==
    /\ InitBar
    /\ InitApp
    /\ lastEvent = Event("mount", <<>>)
    /\ fnArg \in {<<>>} \cup {<<a>> : a \in Abstracts}
    /\ fnOut = <<>>
    /\ fnCalls = 0

\* const formattedAbstract = formatAbstract(abstract)
FormatAbstract ==
    /\ fnCalls = 0
    /\ fnOut' = <<formatAbstract(fnArg)>>
    /\ fnCalls' = 1
    /\ UNCHANGED <<fnArg, barVars, appVars, lastEvent>>

NextAbstract == FormatAbstract

SpecAbstract == InitAbstract /\ [][NextAbstract]_vars

\* ------------------------------------------------------------- formatAuthors
\* authors.split(sep)
RECURSIVE Split(_, _)
Split(text, sep) ==
    LET i == FirstIndex(text, sep)
    IN  IF i > Len(text) THEN <<text>>
        ELSE <<SubSeq(text, 1, i - 1)>> \o Split(From(text, i + 1), sep)

\* .map(a => a.trim())
TrimEntry_Untrimmed(a) == a

TrimEntry(a) == Trim(a)

\* entries.join(sep)
RECURSIVE Join(_, _)
Join(entries, sep) ==
    IF entries = <<>> THEN <<>>
    ELSE IF Len(entries) = 1 THEN entries[1]
         ELSE entries[1] \o sep \o Join(Tail(entries), sep)

\* formatAuthors(authors), authors being <<>> (undefined) or <<string>>
formatAuthors(arg) ==
    IF arg = <<>> \/ arg[1] = <<>> THEN <<>>
    ELSE LET entries == Split(arg[1], ",")
         IN  Join([i \in 1..Len(entries) |-> TrimEntry(entries[i])], <<",", " ">>)

AuthorTokens == {"A", ",", " "}
ExampleAuthors ==
    <<"Smith", " ", "J", ",", " ", " ", "Doe", " ", "A", " ", ",", "Lee", " ", "K">>
AuthorStrings ==
    UNION {[1..n -> AuthorTokens] : n \in 0..MaxAuthors} \cup {ExampleAuthors}

InitAuthors ==
    /\ InitBar
    /\ InitApp
    /\ lastEvent = Event("mount", <<>>)
    /\ fnArg \in {<<>>} \cup {<<a>> : a \in AuthorStrings}
    /\ fnOut = <<>>
    /\ fnCalls = 0

\* {formatAuthors(metadata.authors)}
FormatAuthors ==
    /\ fnCalls = 0
    /\ fnOut' = <<formatAuthors(fnArg)>>
    /\ fnCalls' = 1
    /\ UNCHANGED <<fnArg, barVars, appVars, lastEvent>>

\* formatAuthors applied to the string it returned
FormatAuthorsAgain ==
    /\ fnCalls = 1
    /\ fnOut' = <<formatAuthors(fnOut)>>
    /\ fnCalls' = 2
    /\ UNCHANGED <<fnArg, barVars, appVars, lastEvent>>

NextAuthors == FormatAuthors \/ FormatAuthorsAgain

SpecAuthors == InitAuthors /\ [][NextAuthors]_vars

\* ============================================================= claims
\* ------------------------------------------------------------- SearchBar

\* C1 (as claimed): an autocomplete response is committed to the suggestion
\* list, and the panel made visible, only if the prefix the request was
\* issued for equals the current input value trimmed when it arrives.
C1_SuggestionStaleness ==
    lastEvent.op = "AutocompleteOk" => lastEvent.q = Trim(barQuery)

\* C2 (as claimed): once a burst of input changes is over and no timeout is
\* left pending, exactly one autocomplete call has been issued for it,
\* whatever the last input value is.
C2_ExactlyOneCallPerBurst ==
    (burstChanges > 0 /\ timers = {} /\ quiet >= DEBOUNCE_MS) => burstCalls = 1

\* C2 (amended): a burst of input changes, each less than DEBOUNCE_MS after
\* the previous one, issues at most one autocomplete call; the call is issued
\* only after DEBOUNCE_MS quiet ms since the last change, with the last input
\* value trimmed as prefix and limit 8; the only timeout ever pending is the
\* one the last change scheduled; and once no timeout is pending the burst
\* has issued exactly one call if the last value's trimmed length is at
\* least 2, and none otherwise.
C2_Debounce ==
    /\ burstCalls <= 1
    /\ \A t \in timers : t.id = debounceTimerRef /\ t.prefix = Trim(barQuery)
    /\ lastEvent.op = "TimerFire" =>
          /\ quiet >= DEBOUNCE_MS
          /\ burstCalls = 1
          /\ autoInFlight # <<>>
          /\ autoInFlight[Len(autoInFlight)] =
                 [prefix |-> Trim(barQuery), limit |-> 8]
    /\ (burstChanges > 0 /\ timers = {}) =>
          burstCalls = IF Len(Trim(barQuery)) >= 2 THEN 1 ELSE 0

\* a burst of two or more rapid changes ended in a padded value and its one
\* call went out
C2_Witness ==
    /\ lastEvent.op = "TimerFire"
    /\ burstChanges = 2
    /\ burstCalls = 1
    /\ barQuery # Trim(barQuery)

\* C3: after the input value changed to a string whose trimmed length is
\* below 2 the suggestion list is empty, the panel hidden and no timeout
\* pending; and no timeout or autocomplete call ever carries a prefix
\* shorter than 2.
C3_LengthThreshold ==
    /\ (lastEvent.op = "handleInputChange" /\ Len(Trim(barQuery)) < 2) =>
          suggestions = <<>> /\ ~showSuggestions /\ timers = {}
    /\ \A t \in timers : Len(t.prefix) >= 2
    /\ \A k \in 1..Len(autoInFlight) : Len(autoInFlight[k].prefix) >= 2
    /\ lastEvent.op = "TimerFire" => Len(lastEvent.q) >= 2

\* a one-character value padded with blanks was typed while a timeout was
\* pending (the spinner is still on and nothing is in flight)
C3_Witness ==
    /\ lastEvent.op = "handleInputChange"
    /\ Len(barQuery) >= 2
    /\ Len(Trim(barQuery)) = 1
    /\ isLoadingSuggestions
    /\ autoInFlight = <<>>

\* ------------------------------------------------------------- App

SearchSettled == lastEvent.op \in {"SearchOk", "SearchFail"}
DocumentSettled == lastEvent.op \in {"DocumentOk", "DocumentFail"}
EmptySubmission == lastEvent.op = "handleSearch" /\ Trim(lastEvent.q) = <<>>

\* C4 (as claimed): the response to a search that a later search has
\* superseded is not applied: it leaves the result list, the total count and
\* the displayed query as they are.
C4_SearchOrdering ==
    [][(lastEvent'.op \in {"SearchOk", "SearchFail"} /\ lastEvent'.superseded) =>
          UNCHANGED <<results, totalResults, query>>]_vars

\* C5: a submission that is empty after trimming leaves the result list
\* empty, the total 0 and the active query empty, and issues no search
\* request.
C5_EmptySubmission ==
    [][(lastEvent'.op = "handleSearch" /\ Trim(lastEvent'.q) = <<>>) =>
          /\ results' = <<>>
          /\ totalResults' = 0
          /\ query' = <<>>
          /\ searchInFlight' = searchInFlight]_vars

\* a blank submission was made while a search was in flight
C5_Witness ==
    /\ EmptySubmission
    /\ lastEvent.q # <<>>
    /\ searchInFlight # <<>>
    /\ results = <<>> /\ totalResults = 0 /\ query = <<>>

\* C6 (as claimed): after every exit path of a search submission (success,
\* failure, early empty-query return) and of a document open, loading is
\* false.
C6_LoadingFalseOnEveryExit ==
    (SearchSettled \/ DocumentSettled \/ EmptySubmission) => ~loading

\* C6 (amended): after the success or failure continuation of a search or of
\* a document open loading is false; after the early empty-query return,
\* which does not touch the flag, it is false unless another request is still
\* in flight; and loading is false whenever no request is in flight.
C6_LoadingRelease ==
    /\ (SearchSettled \/ DocumentSettled) => ~loading
    /\ EmptySubmission => (loading => searchInFlight # <<>> \/ docInFlight # <<>>)
    /\ (searchInFlight = <<>> /\ docInFlight = <<>>) => ~loading

\* a failed search was the last request to settle
C6_Witness ==
    /\ lastEvent.op = "SearchFail"
    /\ searchInFlight = <<>> /\ docInFlight = <<>>
    /\ ~loading

\* C7: a failed search leaves the result list empty and the total 0 and
\* shows exactly one message: the not-ready text for status 503, the
\* not-found text for 404, the "Search failed: ..." text for anything else;
\* the three texts are pairwise distinct.
C7_SearchFailureClassification ==
    /\ NotReadyMessage # NotFoundMessage
    /\ \A e \in SearchErrors :
          SearchFailedMessage(e.message) \notin {NotReadyMessage, NotFoundMessage}
    /\ lastEvent.op = "SearchFail" =>
          /\ results = <<>>
          /\ totalResults = 0
          /\ Len(lastEvent.alerts) = 1
          /\ LET e == lastEvent.error[1]
                 msg == lastEvent.alerts[1]
             IN  /\ e.status = 503 => msg = NotReadyMessage
                 /\ e.status = 404 => msg = NotFoundMessage
                 /\ e.status \notin {503, 404} =>
                       msg = <<"Search failed: ",
                               IF e.message = "" THEN "Unknown error" ELSE e.message>>

\* a search was rejected with 404 while results were held
C7_Witness ==
    /\ lastEvent.op = "SearchFail"
    /\ lastEvent.error[1].status = 404
    /\ lastEvent.alerts = <<NotFoundMessage>>
    /\ results = <<>> /\ totalResults = 0

\* C8 (as claimed): after a document fetch succeeded the view is in document
\* mode holding exactly the fetched record; after one failed a message has
\* been shown and the view is in results mode with no document held.
C8_DocumentOpenOutcome ==
    /\ lastEvent.op = "DocumentOk" =>
          /\ showDocument
          /\ selectedDoc = <<[paper_id |-> lastEvent.docId[1]]>>
    /\ lastEvent.op = "DocumentFail" =>
          /\ Len(lastEvent.alerts) = 1
          /\ ~showDocument
          /\ selectedDoc = Null

\* C9: issuing a document request, its success, its failure and
\* back-to-results each leave the result list, the total count and the
\* active query untouched; back-to-results drops the held document and
\* clears the show-document flag.
C9_NavigationFrame ==
    [][/\ lastEvent'.op \in {"handleSelectDocument", "DocumentOk", "DocumentFail",
                             "handleBackToResults"} =>
             UNCHANGED <<results, totalResults, query>>
       /\ lastEvent'.op = "handleBackToResults" =>
             selectedDoc' = Null /\ ~showDocument']_vars

\* back in results mode with the two ranked results and the server's total
C9_Witness ==
    /\ lastEvent.op = "handleBackToResults"
    /\ results = <<"d2", "d1">>
    /\ totalResults = 57
    /\ query # <<>>
    /\ selectedDoc = Null /\ ~showDocument

\* C10: the show-document flag is set exactly when a document record is
\* held, so the document view is shown exactly when the flag is set and the
\* result list exactly when no record is held.
C10_ViewModeExclusivity ==
    /\ showDocument <=> selectedDoc # Null
    /\ DocumentViewerShown <=> showDocument
    /\ SearchResultsShown <=> selectedDoc = Null

\* the second result's document is shown over a held result list
C10_Witness ==
    /\ lastEvent.op = "DocumentOk"
    /\ showDocument
    /\ selectedDoc = <<[paper_id |-> "d2"]>>
    /\ results # <<>>

\* C11: after a search response was applied the held result list is the
\* response's result sequence in its order, the total count is the
\* response's total whatever the number of items held, and the displayed
\* query is the query the backend echoed if it echoed one, else the trimmed
\* submitted query.
C11_SearchSuccessCommit ==
    lastEvent.op = "SearchOk" =>
        LET r == lastEvent.response[1]
        IN  /\ r.results # <<>> => results = r.results[1]
            /\ r.total # <<>> => totalResults = r.total[1]
            /\ query = IF r.query # <<>> /\ r.query[1] # <<>>
                       THEN r.query[1]
                       ELSE lastEvent.q

\* a response ranked d2 before d1, with total 57 over two items and an
\* echoed query that differs from the submitted one, was applied
C11_Witness ==
    /\ lastEvent.op = "SearchOk"
    /\ results = <<"d2", "d1">>
    /\ totalResults = 57
    /\ totalResults > Len(results)
    /\ lastEvent.q # NormalisedQuery
    /\ query = NormalisedQuery


\* every delimiter of the body belongs to a well-formed marker: a start
\* delimiter, a name on one line, an end delimiter; inName says whether the
\* scan is inside a name
RECURSIVE MarkersWellFormed(_, _)
MarkersWellFormed(text, inName) ==
    IF text = <<>> THEN ~inName
    ELSE IF inName
         THEN /\ text[1] \notin {SECTION_START, NL}
              /\ MarkersWellFormed(Tail(text), text[1] # SECTION_END)
         ELSE /\ text[1] # SECTION_END
              /\ MarkersWellFormed(Tail(text), text[1] = SECTION_START)

WellFormedBody(text) ==
    Includes(text, SECTION_START) /\ MarkersWellFormed(text, FALSE)

\* the segment a stretch of text between markers is to give
TextSegment(t) == IF Trim(t) # <<>> THEN <<Paragraph(Trim(t))>> ELSE <<>>

\* the segments the markers of rest are to give, rest starting at a marker of
\* a well-formed body: heading, paragraph, then the next marker's
RECURSIVE MarkerSegments(_)
MarkerSegments(rest) ==
    IF rest = <<>> THEN <<>>
    ELSE LET e == FirstIndex(rest, SECTION_END)
             name == Trim(SubSeq(rest, 2, e - 1))
             after == From(rest, e + 1)
             n == FirstIndex(after, SECTION_START)
         IN  (IF name # <<>> THEN <<Heading(name)>> ELSE <<>>)
             \o TextSegment(SubSeq(after, 1, n - 1))
             \o MarkerSegments(From(after, n))

ExpectedSegments(text) ==
    LET s == FirstIndex(text, SECTION_START)
    IN  TextSegment(SubSeq(text, 1, s - 1)) \o MarkerSegments(From(text, s))

\* C12: decoding a body whose section markers are all well formed gives, marker
\* by marker from the left, a Heading with the trimmed name when that name is
\* not empty, then a Paragraph with the trimmed text up to the next marker (or
\* the end) when that text is not empty, all after a Paragraph with the trimmed
\* text before the first marker when that is not empty.
C12_DecoderWithMarkers ==
    (fnCalls = 1 /\ fnArg # <<>> /\ WellFormedBody(fnArg[1])) =>
        fnOut[1] = ExpectedSegments(fnArg[1])

\* a start delimiter with an end delimiter somewhere after it
HasMarker(text) ==
    \E i, j \in 1..Len(text) :
        i < j /\ text[i] = SECTION_START /\ text[j] = SECTION_END

\* C13: decoding an absent or empty body gives the empty sequence, and decoding
\* a non-empty body with no section marker gives exactly one Paragraph whose
\* text is the whole body, untrimmed.
C13_DecoderWithoutMarkers ==
    fnCalls = 1 =>
        /\ (fnArg = <<>> \/ fnArg[1] = <<>>) => fnOut[1] = <<>>
        /\ (fnArg # <<>> /\ fnArg[1] # <<>> /\ ~HasMarker(fnArg[1])) =>
               fnOut[1] = <<Paragraph(fnArg[1])>>

\* a body with blanks at both ends and no marker came back as it was
C13_Witness ==
    /\ fnCalls = 1
    /\ fnArg # <<>>
    /\ Len(fnArg[1]) >= 3
    /\ ~HasMarker(fnArg[1])
    /\ fnArg[1][1] = " "
    /\ fnArg[1][Len(fnArg[1])] = NL
    /\ fnOut[1] = <<Paragraph(fnArg[1])>>
    /\ Trim(fnArg[1]) # fnArg[1]

\* C14: formatting an abstract collapses whitespace and leaves a paragraph
\* break (two line breaks) in front of every whole-word keyword that is not the
\* first word of the output, no two blanks are adjacent in the output, and an
\* absent or empty abstract gives the empty string.
C14_AbstractFormatting ==
    fnCalls = 1 =>
        LET out == fnOut[1]
        IN  /\ (fnArg = <<>> \/ fnArg[1] = <<>>) => out = <<>>
            /\ \A i \in 1..(Len(out) - 1) : ~(out[i] = " " /\ out[i + 1] = " ")
            /\ \A i \in 2..Len(out) :
                   WholeWordAt(out, i) =>
                       i >= 3 /\ out[i - 1] = NL /\ out[i - 2] = NL

\* the tokens of text that are not whitespace, in order
RECURSIVE NonBlank(_)
NonBlank(text) ==
    IF text = <<>> THEN <<>>
    ELSE (IF IsSpace(text[1]) THEN <<>> ELSE <<text[1]>>) \o NonBlank(Tail(text))

\* every blank at an end of out or next to a comma is the one blank that
\* follows a comma: the entries are trimmed and joined by ", "
TrimmedAndJoined(out) ==
    \A i \in 1..Len(out) :
        /\ out[i] = "," => i < Len(out) /\ out[i + 1] = " "
        /\ out[i] = " " =>
               \/ i > 1 /\ out[i - 1] = ","
               \/ i > 1 /\ i < Len(out) /\ out[i - 1] \notin {",", " "}
                        /\ out[i + 1] # ","
               \/ i > 2 /\ i < Len(out) /\ out[i - 1] = " " /\ out[i - 2] # ","
                        /\ out[i + 1] # ","

ExampleAuthorsFormatted ==
    <<"Smith", " ", "J", ",", " ", "Doe", " ", "A", ",", " ", "Lee", " ", "K">>

\* C15: formatting an author string keeps its commas and its words in number
\* and order, leaves every entry trimmed and the entries joined by ", " (the
\* example string gives 'Smith J, Doe A, Lee K'), gives the empty string for an
\* absent or empty input, and formatting the result again changes nothing.
C15_AuthorFormatting ==
    [][/\ fnCalls' = 1 =>
              /\ (fnArg = <<>> \/ fnArg[1] = <<>>) => fnOut'[1] = <<>>
              /\ fnArg # <<>> =>
                     /\ NonBlank(fnOut'[1]) = NonBlank(fnArg[1])
                     /\ TrimmedAndJoined(fnOut'[1])
              /\ fnArg = <<ExampleAuthors>> => fnOut'[1] = ExampleAuthorsFormatted
       /\ fnCalls' = 2 => fnOut' = fnOut]_vars

\* the example string has been formatted twice
C15_Witness ==
    /\ fnCalls = 2
    /\ fnArg = <<ExampleAuthors>>
    /\ fnOut = <<ExampleAuthorsFormatted>>

\* C16: a document fetch that fails with 404 alerts a message that no other
\* document-fetch failure alerts.
C16_DocumentNotFound ==
    (lastEvent.op = "DocumentFail" /\ lastEvent.error[1].status = HTTP_NOT_FOUND) =>
        \A e \in DocumentErrors :
            e.status # HTTP_NOT_FOUND =>
                lastEvent.alerts # <<DocumentFailureMessage(e)>>

\* C17: a failed autocomplete call leaves the suggestion list empty and the
\* suggestion panel not shown, alerts nothing, and changes none of results,
\* total, query, loading and view mode.
C17_AutocompleteFailure ==
    [][lastEvent'.op = "AutocompleteFail" =>
           /\ suggestions' = <<>>
           /\ ~SuggestionPanelShown'
           /\ lastEvent'.alerts = <<>>
           /\ UNCHANGED <<results, totalResults, query, loading, selectedDoc,
                          showDocument>>]_vars

\* a call failed while suggestions of an earlier call were on show
C17_Witness ==
    /\ lastEvent.op = "AutocompleteFail"
    /\ showSuggestions
    /\ suggestions = <<>>
    /\ ~SuggestionPanelShown

\* C18: from a submit or a picked suggestion until the user next changes the
\* input, the suggestion panel is not shown, whatever timer was pending, call
\* was in flight or debounce cycle the picked suggestion started.
C18_SuggestionsDiscardedOnSubmit == dismissed => ~SuggestionPanelShown

\* C19: a document response whose open a later intent has superseded (a later
\* open, back-to-results, a new search) leaves the held document and the view
\* mode as they are, so the view only ever shows the document asked for last.
C19_DocumentLatestIntent ==
    [][(lastEvent'.op = "DocumentOk" /\ lastEvent'.superseded) =>
          UNCHANGED <<selectedDoc, showDocument>>]_vars

\* C20: once the result list is empty, the total 0 and the active query empty,
\* as an empty submission leaves them, they stay so through every step that is
\* not a submission, the arrival of an earlier search's response included.
C20_EmptyStateTerminal ==
    [][(/\ query = <<>>
        /\ results = <<>>
        /\ totalResults = 0
        /\ lastEvent'.op # "handleSearch") =>
          /\ query' = <<>>
          /\ results' = <<>>
          /\ totalResults' = 0]_vars

\* C21: whenever no debounce timer is pending and no autocomplete call is in
\* flight, the suggestion-loading flag is false; so after an input of trimmed
\* length 2 or more is changed, within the debounce window, to one of trimmed
\* length below 2.
C21_SuggestionLoadingRelease ==
    (timers = {} /\ autoInFlight = <<>>) => ~isLoadingSuggestions

\* C22: in every reachable state the total count is at least the number of
\* results held, whatever response was applied (one with a missing total or a
\* missing result list included) and after every clear.
C22_TotalBound == totalResults >= Len(results)

\* the section delimiters of text, in order
RECURSIVE Delimiters(_)
Delimiters(text) ==
    IF text = <<>> THEN <<>>
    ELSE (IF text[1] \in {SECTION_START, SECTION_END} THEN <<text[1]>> ELSE <<>>)
         \o Delimiters(Tail(text))

\* the texts of the segments of the given kind, one after the other
RECURSIVE TextOfKind(_, _)
TextOfKind(segments, kind) ==
    IF segments = <<>> THEN <<>>
    ELSE (IF segments[1].kind = kind THEN segments[1].text ELSE <<>>)
         \o TextOfKind(Tail(segments), kind)

\* the delimiters of text that are not the start or the end delimiter of a
\* marker matched from the left
UnmatchedDelimiters(text) ==
    LET sections == FindSections(text, 1)
        matched == UNION {{sections[k].startIndex, sections[k].endIndex - 1} :
                          k \in 1..Len(sections)}
        F[i \in 0..Len(text)] ==
            IF i = 0 THEN <<>>
            ELSE F[i - 1] \o
                 (IF text[i] \in {SECTION_START, SECTION_END} /\ i \notin matched
                  THEN <<text[i]>> ELSE <<>>)
    IN  F[Len(text)]

\* a is b with some elements left out
RECURSIVE IsSubsequence(_, _)
IsSubsequence(a, b) ==
    IF a = <<>> THEN TRUE
    ELSE IF b = <<>> THEN FALSE
         ELSE IF a[1] = b[1] THEN IsSubsequence(Tail(a), Tail(b))
              ELSE IsSubsequence(a, Tail(b))

\* C23: for every body, malformed ones included, the markers are matched from
\* the left without overlap, no Heading holds a delimiter, and every delimiter
\* outside a matched marker is emitted, in its place, in Paragraph text.
C23_MalformedMarkers ==
    (fnCalls = 1 /\ fnArg # <<>>) =>
        LET body == fnArg[1]
            sections == FindSections(body, 1)
        IN  /\ \A k \in 1..Len(sections) :
                   /\ sections[k].startIndex < sections[k].endIndex
                   /\ k < Len(sections) =>
                          sections[k].endIndex <= sections[k + 1].startIndex
            /\ Delimiters(TextOfKind(fnOut[1], "Heading")) = <<>>
            /\ IsSubsequence(UnmatchedDelimiters(body),
                             Delimiters(TextOfKind(fnOut[1], "Paragraph")))

\* the texts of all segments, one after the other
RECURSIVE AllText(_)
AllText(segments) ==
    IF segments = <<>> THEN <<>>
    ELSE segments[1].text \o AllText(Tail(segments))

\* the tokens of text that are neither whitespace nor a delimiter, in order
RECURSIVE Content(_)
Content(text) ==
    IF text = <<>> THEN <<>>
    ELSE (IF IsSpace(text[1]) \/ text[1] \in {SECTION_START, SECTION_END}
          THEN <<>> ELSE <<text[1]>>)
         \o Content(Tail(text))

\* C24: for every body the segment texts, in order, hold the body's tokens that
\* are neither whitespace nor delimiter, each once and in the original order,
\* and the only delimiters they hold are those outside matched markers.
C24_ContentPreservation ==
    (fnCalls = 1 /\ fnArg # <<>>) =>
        /\ Content(AllText(fnOut[1])) = Content(fnArg[1])
        /\ Delimiters(AllText(fnOut[1])) = UnmatchedDelimiters(fnArg[1])

\* C25: in every reachable state the loading flag is true whenever a search
\* request or a document request is in flight, however searches and document
\* opens overlap.
C25_LoadingReflectsInFlight ==
    (searchInFlight # <<>> \/ docInFlight # <<>>) => loading

\* C26: a search submission (the empty-query clear included), the success of a
\* search and its failure leave the show-document flag and the held document
\* as they are.
C26_SearchLeavesViewMode ==
    [][lastEvent'.op \in {"handleSearch", "SearchOk", "SearchFail"} =>
          UNCHANGED <<showDocument, selectedDoc>>]_vars

\* a search submitted while document d1 was shown has replaced the result list
\* and the document is still shown
C26_Witness ==
    /\ lastEvent.op = "SearchOk"
    /\ DocumentViewerShown
    /\ selectedDoc = Some(FetchedDocument("d1"))
    /\ results = <<"d2", "d1">>
    /\ ~lastEvent.superseded

====
